---- MODULE Spec2Model ----
(***************************************************************************)
(* A model of yank, a key-value store whose values are copied to the       *)
(* clipboard.  Two variants of Handler exist in the repository:            *)
(* src/src/handler.rs (the one main.rs runs) and src/src/lib.rs.  The      *)
(* model carries both; the variable build says which one is compiled.      *)
(*                                                                         *)
(* The data file is a sequence of JSON tokens, so that writing and reading  *)
(* the file go through a serializer and a parser, and a layout: the        *)
(* whitespace between the tokens is the pretty printer's or someone        *)
(* else's.                                                                 *)
(***************************************************************************)
EXTENDS Integers, Sequences, FiniteSets, TLC

(***************************************************************************)
(* Bounds                                                                  *)
(***************************************************************************)
\* how many distinct keys the invocations use
NumKeys == 2
\* how many distinct values the invocations put
NumVals == 2
\* the longest prefix (in tokens) a failed write leaves in the file
MaxTorn == 1
\* how many invocations race on the data file
MaxRuns == 2

AllKeys == <<"a", "b", "c", "d">>
AllVals == <<"x", "y", "z", "w">>

\* the keys, listed in ascending byte order
KeyOrder == SubSeq(AllKeys, 1, NumKeys)
Keys == {KeyOrder[i] : i \in 1..Len(KeyOrder)}
Vals == {AllVals[i] : i \in 1..NumVals}

\* the invocations (operating-system processes) that may be alive
Procs == {"p1", "p2"}
\* the one that runs when invocations do not overlap
Main == "p1"

(***************************************************************************)
(* serde_json::Value                                                       *)
(***************************************************************************)
EmptyMap == [k \in {} |-> ""]

Null == [t |-> "null", s |-> "", m |-> EmptyMap]
Str(s) == [t |-> "str", s |-> s, m |-> EmptyMap]
Num(s) == [t |-> "num", s |-> s, m |-> EmptyMap]
Arr == [t |-> "arr", s |-> "", m |-> EmptyMap]
Obj(m) == [t |-> "obj", s |-> "", m |-> m]

\* serde_json::Map::insert and ::remove
MapInsert(m, k, v) == [x \in DOMAIN m \cup {k} |-> IF x = k THEN v ELSE m[x]]
MapRemove(m, k) == [x \in DOMAIN m \ {k} |-> m[x]]

\* the keys of a map in the order the map iterates them (a BTreeMap: sorted)
RECURSIVE SortedFrom(_, _)
SortedFrom(order, S) ==
    IF order = <<>> THEN <<>>
    ELSE IF Head(order) \in S
         THEN <<Head(order)>> \o SortedFrom(Tail(order), S)
         ELSE SortedFrom(Tail(order), S)
MapKeys(m) == SortedFrom(KeyOrder, DOMAIN m)

(***************************************************************************)
(* Tokens of the data file                                                 *)
(***************************************************************************)
Tok(kind, text) == <<kind, text>>
LBrace == Tok("p", "{")
RBrace == Tok("p", "}")
LBracket == Tok("p", "[")
RBracket == Tok("p", "]")
Colon == Tok("p", ":")
Comma == Tok("p", ",")

\* serde_json::to_string_pretty, of a value that is not an object or array
SerLeaf(v) ==
    CASE v.t = "str" -> <<Tok("str", v.s)>>
      [] v.t = "num" -> <<Tok("num", v.s)>>
      [] OTHER -> <<Tok("lit", "null")>>

RECURSIVE SerEntries(_, _)
SerEntries(m, ks) ==
    IF ks = <<>> THEN <<>>
    ELSE <<Tok("str", Head(ks)), Colon>> \o SerLeaf(m[Head(ks)])
         \o (IF Tail(ks) = <<>> THEN <<>> ELSE <<Comma>>)
         \o SerEntries(m, Tail(ks))

\* serde_json::to_string_pretty
to_string_pretty(v) ==
    CASE v.t = "obj" -> <<LBrace>> \o SerEntries(v.m, MapKeys(v.m)) \o <<RBrace>>
      [] v.t = "arr" -> <<LBracket, RBracket>>
      [] OTHER -> SerLeaf(v)

\* the result of a parse: ok says whether it succeeded
ParseOk(v) == [ok |-> TRUE, v |-> v]
ParseErr == [ok |-> FALSE, v |-> Null]

IsLeafTok(tk) == tk[1] \in {"str", "num"} \/ tk = Tok("lit", "null")
LeafOf(tk) ==
    CASE tk[1] = "str" -> Str(tk[2])
      [] tk[1] = "num" -> Num(tk[2])
      [] OTHER -> Null

\* the members of an object: "key" : leaf , "key" : leaf ...
RECURSIVE ParseMembers(_, _)
ParseMembers(toks, m) ==
    IF Len(toks) < 3 THEN ParseErr
    ELSE IF ~(toks[1][1] = "str" /\ toks[2] = Colon /\ IsLeafTok(toks[3]))
         THEN ParseErr
    ELSE LET m2 == MapInsert(m, toks[1][2], LeafOf(toks[3]))
         IN IF Len(toks) = 3 THEN ParseOk(Obj(m2))
            ELSE IF toks[4] = Comma
                 THEN ParseMembers(SubSeq(toks, 5, Len(toks)), m2)
                 ELSE ParseErr

\* serde_json::from_str
from_str(toks) ==
    IF Len(toks) = 0 THEN ParseErr
    ELSE IF Len(toks) = 1
         THEN IF IsLeafTok(toks[1]) THEN ParseOk(LeafOf(toks[1])) ELSE ParseErr
    ELSE IF toks = <<LBracket, RBracket>> THEN ParseOk(Arr)
    ELSE IF toks[1] = LBrace /\ toks[Len(toks)] = RBrace
         THEN IF Len(toks) = 2 THEN ParseOk(Obj(EmptyMap))
              ELSE ParseMembers(SubSeq(toks, 2, Len(toks) - 1), EmptyMap)
    ELSE ParseErr

\* Value::to_string (compact form) of a value that is not a string
ValueToString(v) ==
    CASE v.t = "num" -> v.s
      [] v.t = "null" -> "null"
      [] v.t = "arr" -> "[]"
      [] OTHER -> "{..}"

(***************************************************************************)
(* YankError and Result                                                    *)
(***************************************************************************)
Ok == [ok |-> TRUE, err |-> "", arg |-> "", v |-> ""]
OkVal(v) == [ok |-> TRUE, err |-> "", arg |-> "", v |-> v]
Err(kind, arg) == [ok |-> FALSE, err |-> kind, arg |-> arg, v |-> ""]

\* a line of output: a text and the value interpolated in it
Msg(text, arg) == <<text, arg>>

\* #[error(...)] of YankError: what eprintln!("{err}") prints
Display(e) ==
    CASE e.err = "NoKeyProvided" -> Msg("No key provided", "")
      [] e.err = "HomeDirNotFound" -> Msg("Could not find home directory", "")
      [] e.err = "Io" -> Msg("I/O error: {0}", e.arg)
      [] e.err = "Json" -> Msg("Failed to parse data file: {0}", e.arg)
      [] e.err = "Clipboard" -> Msg("Clipboard error: {0}", e.arg)
      [] OTHER -> Msg("No value found for '{0}'", e.arg)

(***************************************************************************)
(* The file system                                                         *)
(***************************************************************************)
NoFile == [exists |-> FALSE, content |-> <<>>, layout |-> "none"]
\* a file fs::write wrote: the bytes are those to_string_pretty produced
FileOf(content) == [exists |-> TRUE, content |-> content, layout |-> "pretty"]
\* a file written by hand: the same tokens may be laid out in other bytes
HandFile(content) == [exists |-> TRUE, content |-> content, layout |-> "hand"]

\* what can happen to one fs::write of content: it completes, the file
\* cannot be opened, or it is truncated and the write stops after n tokens
\* (n at most MaxTorn, and less than the whole content)
WriteOutcomes(content) ==
    {[kind |-> "ok", n |-> Len(content)], [kind |-> "nocreate", n |-> 0]}
    \cup {[kind |-> "torn", n |-> n] :
             n \in {i \in 0..MaxTorn : i < Len(content)}}

\* std::fs::write: create (truncating) the file, then write_all
fs_write(f, content, w) ==
    CASE w.kind = "ok" -> [file |-> FileOf(content), res |-> Ok]
      [] w.kind = "nocreate" -> [file |-> f, res |-> Err("Io", "write")]
      [] OTHER -> [file |-> FileOf(SubSeq(content, 1, w.n)), res |-> Err("Io", "write")]

\* what can happen to one fs::read_to_string
ReadOutcomes(f) == IF f.exists THEN {"ok", "ioerr"} ELSE {"notfound"}

(***************************************************************************)
(* Handler: the operations, as functions of the state they read             *)
(***************************************************************************)
\* Handler::new: the home directory, then create_dir_all
NewOutcomes == {"ok", "nohome", "ioerr"}
new(o) ==
    CASE o = "nohome" -> [res |-> Err("HomeDirNotFound", ""), data |-> Null]
      [] o = "ioerr" -> [res |-> Err("Io", "create_dir_all"), data |-> Null]
      [] OTHER -> [res |-> Ok, data |-> Null]

\* load_data, were it to take a file it cannot parse for an empty store
load_data_swallow(d, f, r) ==
    CASE r = "ok" ->
            LET parsed == from_str(f.content)
            IN IF parsed.ok THEN [res |-> Ok, data |-> parsed.v]
               ELSE [res |-> Ok, data |-> Obj(EmptyMap)]
      [] r = "notfound" -> [res |-> Ok, data |-> Obj(EmptyMap)]
      [] OTHER -> [res |-> Err("Io", "read"), data |-> d]

\* Handler::load_data
load_data(d, f, r) ==
    CASE r = "ok" ->
            LET parsed == from_str(f.content)
            IN IF parsed.ok THEN [res |-> Ok, data |-> parsed.v]
               ELSE [res |-> Err("Json", "syntax"), data |-> d]
      [] r = "notfound" -> [res |-> Ok, data |-> Obj(EmptyMap)]
      [] OTHER -> [res |-> Err("Io", "read"), data |-> d]

\* save_data, were it to add its entries to those the file holds instead of
\* replacing the content
save_data_merge(d, f, w) ==
    LET old == from_str(f.content)
        merged == IF f.exists /\ old.ok /\ old.v.t = "obj" /\ d.t = "obj"
                  THEN Obj([k \in DOMAIN old.v.m \cup DOMAIN d.m |->
                              IF k \in DOMAIN d.m THEN d.m[k] ELSE old.v.m[k]])
                  ELSE d
    IN fs_write(f, to_string_pretty(merged), w)

\* Handler::save_data
save_data(d, f, w) ==
    LET content == to_string_pretty(d)
    IN fs_write(f, content, w)

\* Handler::list_keys: the lines it prints
RECURSIVE KeyLines(_)
KeyLines(ks) ==
    IF ks = <<>> THEN <<>> ELSE <<Msg("{key}", Head(ks))>> \o KeyLines(Tail(ks))

\* Vec::sort of keys: insertion sort by byte order
Rank(k) == CHOOSE i \in 1..Len(AllKeys) : AllKeys[i] = k

RECURSIVE InsertSorted(_, _)
InsertSorted(k, ks) ==
    IF ks = <<>> THEN <<k>>
    ELSE IF Rank(k) <= Rank(Head(ks)) THEN <<k>> \o ks
         ELSE <<Head(ks)>> \o InsertSorted(k, Tail(ks))

RECURSIVE sort(_)
sort(ks) == IF ks = <<>> THEN <<>> ELSE InsertSorted(Head(ks), sort(Tail(ks)))

\* list_keys, were it to stop after the first key
list_keys_first(d) ==
    IF d.t = "obj" /\ DOMAIN d.m # {}
    THEN [res |-> Ok, stdout |-> KeyLines(<<Head(sort(MapKeys(d.m)))>>)]
    ELSE [res |-> Ok, stdout |-> <<Msg("No keys stored.", "")>>]

list_keys(d) ==
    IF d.t = "obj" /\ DOMAIN d.m # {}
    THEN [res |-> Ok, stdout |-> KeyLines(sort(MapKeys(d.m)))]
    ELSE [res |-> Ok, stdout |-> <<Msg("No keys stored.", "")>>]

\* get_value, were it to default a missing key to the empty string
get_value_or_empty(d, key) ==
    IF d.t = "obj" /\ key \in DOMAIN d.m
    THEN LET value == d.m[key]
         IN IF value.t = "str" THEN OkVal(value.s) ELSE OkVal(ValueToString(value))
    ELSE OkVal("")

\* Handler::get_value
get_value(d, key) ==
    IF d.t = "obj" /\ key \in DOMAIN d.m
    THEN LET value == d.m[key]
         IN IF value.t = "str" THEN OkVal(value.s) ELSE OkVal(ValueToString(value))
    ELSE Err("KeyNotFound", key)

\* Inserted, were it to keep the value of a key already there
Inserted_keep(d, key, value) ==
    IF d.t = "obj"
    THEN IF key \in DOMAIN d.m THEN d ELSE Obj(MapInsert(d.m, key, Str(value)))
    ELSE Obj(MapInsert(EmptyMap, key, Str(value)))

\* the in-memory part of Handler::set_value
Inserted(d, key, value) ==
    IF d.t = "obj" THEN Obj(MapInsert(d.m, key, Str(value)))
    ELSE Obj(MapInsert(EmptyMap, key, Str(value)))

SetMsg == Msg("Value set successfully!", "")
DeletedMsg == Msg("Value deleted successfully!", "")

\* Handler::set_value of src/src/handler.rs
set_value_handler(d, key, value, f, w) ==
    LET d2 == Inserted(d, key, value)
        sv == save_data(d2, f, w)
    IN [data |-> d2, file |-> sv.file, res |-> sv.res,
        stdout |-> <<SetMsg>>, wrote |-> TRUE]

\* set_value, were it to save before it inserts
set_value_lib_save_first(d, key, value, f, w) ==
    LET d2 == Inserted(d, key, value)
        sv == save_data(d, f, w)
    IN [data |-> d2, file |-> sv.file, res |-> sv.res,
        stdout |-> IF sv.res.ok THEN <<SetMsg>> ELSE <<>>, wrote |-> TRUE]

\* Handler::set_value of src/src/lib.rs
set_value_lib(d, key, value, f, w) ==
    LET d2 == Inserted(d, key, value)
        sv == save_data(d2, f, w)
    IN [data |-> d2, file |-> sv.file, res |-> sv.res,
        stdout |-> IF sv.res.ok THEN <<SetMsg>> ELSE <<>>, wrote |-> TRUE]

\* Handler::delete_value of src/src/handler.rs
delete_value_handler(d, key, f, w) ==
    LET d2 == IF d.t = "obj" THEN Obj(MapRemove(d.m, key)) ELSE d
        sv == save_data(d2, f, w)
    IN [data |-> d2, file |-> sv.file, res |-> sv.res,
        stdout |-> IF d.t = "obj" THEN <<DeletedMsg>> ELSE <<>>, wrote |-> TRUE]

\* Handler::delete_value of src/src/lib.rs
delete_value_lib(d, key, f, w) ==
    IF d.t = "obj"
    THEN IF key \in DOMAIN d.m
         THEN LET d2 == Obj(MapRemove(d.m, key))
                  sv == save_data(d2, f, w)
              IN [data |-> d2, file |-> sv.file, res |-> sv.res,
                  stdout |-> IF sv.res.ok THEN <<DeletedMsg>> ELSE <<>>,
                  wrote |-> TRUE]
         ELSE [data |-> d, file |-> f, res |-> Ok,
               stdout |-> <<Msg("Key '{key}' not found", key)>>, wrote |-> FALSE]
    ELSE [data |-> d, file |-> f, res |-> Ok, stdout |-> <<>>, wrote |-> FALSE]

(***************************************************************************)
(* The clipboard                                                           *)
(***************************************************************************)
\* the strategies: the helper binaries, and the in-process arboard API
Strategies == {"wl-copy", "xclip", "xsel", "pbcopy", "native"}

\* the session: WAYLAND_DISPLAY set, DISPLAY set, built for macOS
Sessions == [wayland : BOOLEAN, display : BOOLEAN, macos : BOOLEAN]

\* the environment of one copy: the session, and the strategies that succeed
\* if they are tried
ClipEnv(session, works) ==
    [wayland |-> session.wayland, display |-> session.display,
     macos |-> session.macos, works |-> works]

Try(name, env) == [name |-> name, ok |-> name \in env.works]

UnavailableMsg == "No clipboard utility found. Please install wl-copy (Wayland), xclip/xsel (X11), or pbcopy (macOS)"

\* copy_to_clipboard, were it to go on to the X11 helpers after wl-copy succeeded
copy_to_clipboard_no_return(env) ==
    LET s1 == IF env.wayland THEN <<Try("wl-copy", env)>> ELSE <<>>
        done1 == env.wayland /\ "wl-copy" \in env.works
        s2 == IF env.display THEN s1 \o <<Try("xclip", env)>> ELSE s1
        done2 == done1 \/ (env.display /\ "xclip" \in env.works)
        s3 == IF ~done2 /\ env.display THEN s2 \o <<Try("xsel", env)>> ELSE s2
        done3 == done2 \/ (env.display /\ "xsel" \in env.works)
        s4 == IF ~done3 /\ env.macos THEN s3 \o <<Try("pbcopy", env)>> ELSE s3
        done4 == done3 \/ (env.macos /\ "pbcopy" \in env.works)
    IN [res |-> IF done4 THEN Ok ELSE Err("Clipboard", UnavailableMsg),
        attempts |-> s4]

\* Handler::copy_to_clipboard of src/src/lib.rs
copy_to_clipboard(env) ==
    LET s1 == IF env.wayland THEN <<Try("wl-copy", env)>> ELSE <<>>
        done1 == env.wayland /\ "wl-copy" \in env.works
        s2 == IF ~done1 /\ env.display THEN s1 \o <<Try("xclip", env)>> ELSE s1
        done2 == done1 \/ (env.display /\ "xclip" \in env.works)
        s3 == IF ~done2 /\ env.display THEN s2 \o <<Try("xsel", env)>> ELSE s2
        done3 == done2 \/ (env.display /\ "xsel" \in env.works)
        s4 == IF ~done3 /\ env.macos THEN s3 \o <<Try("pbcopy", env)>> ELSE s3
        done4 == done3 \/ (env.macos /\ "pbcopy" \in env.works)
    IN [res |-> IF done4 THEN Ok ELSE Err("Clipboard", UnavailableMsg),
        attempts |-> s4]

CopiedMsg == Msg("Copied to clipboard!", "")

\* Handler::yank_value of src/src/handler.rs: arboard only
yank_value_handler(d, key, env) ==
    LET value == get_value(d, key)
    IN IF ~value.ok
       THEN [res |-> value, stdout |-> <<>>, attempts |-> <<>>]
       ELSE IF "native" \in env.works
            THEN [res |-> Ok, stdout |-> <<Msg("{value}", value.v), CopiedMsg>>,
                  attempts |-> <<Try("native", env)>>]
            ELSE [res |-> Err("Clipboard", "arboard"),
                  stdout |-> <<Msg("{value}", value.v)>>,
                  attempts |-> <<Try("native", env)>>]

\* yank_value, were it to copy the empty string for a key that is not stored
yank_value_lib_default(d, key, env) ==
    LET value == get_value(d, key)
        text == IF value.ok THEN value.v ELSE ""
        c == copy_to_clipboard(env)
    IN IF c.res.ok
       THEN [res |-> Ok, stdout |-> <<Msg("{value}", text), CopiedMsg>>,
             attempts |-> c.attempts]
       ELSE [res |-> c.res, stdout |-> <<>>, attempts |-> c.attempts]

\* Handler::yank_value of src/src/lib.rs: the helper binaries
yank_value_lib(d, key, env) ==
    LET value == get_value(d, key)
    IN IF ~value.ok
       THEN [res |-> value, stdout |-> <<>>, attempts |-> <<>>]
       ELSE LET c == copy_to_clipboard(env)
            IN IF c.res.ok
               THEN [res |-> Ok, stdout |-> <<Msg("{value}", value.v), CopiedMsg>>,
                     attempts |-> c.attempts]
               ELSE [res |-> c.res, stdout |-> <<>>, attempts |-> c.attempts]

\* main, were it to print the error and return normally
main_exit_zero(res) == IF res.ok THEN 0 ELSE 0

\* main: the exit status of the process, from what run() returned
main_exit(res) == IF res.ok THEN 0 ELSE 1

(***************************************************************************)
(* State                                                                   *)
(***************************************************************************)
VARIABLES
    build,   \* which Handler is compiled: "handler" (handler.rs) or "lib" (lib.rs)
    session, \* the environment variables and platform the clipboard code reads
    file,    \* <home>/.yank/data.json
    pc,      \* per process: "idle", "created" (Handler::new done), "loaded"
    driver,  \* per process: "main" (main.rs runs one command) or "api"
             \* (a caller of the pub fns of Handler, several calls per Handler)
    data,    \* per process: Handler.data
    ev,      \* the last operation that ran and what it did
    hist,    \* per key: the last set_value/delete_value on it and its outcome
    runs     \* how many invocations of a race have started

vars == <<build, session, file, pc, driver, data, ev, hist, runs>>

\* the record of an operation: who ran it under which driver, its arguments,
\* what its file I/O met, its result, what it printed, whether it called
\* fs::write, whether its key was in the store before it, Handler.data when
\* it returned, the clipboard strategies it tried, and the exit status of the
\* process if the operation ended it (-1 otherwise)
NoEv == [p |-> "", drv |-> "", op |-> "none", key |-> "", val |-> "",
         io |-> "", res |-> Ok, stdout |-> <<>>, stderr |-> <<>>,
         wrote |-> FALSE, present |-> FALSE, mem |-> Null,
         attempts |-> <<>>, exit |-> -1]

\* st: "put" (set to v, and set_value returned Ok), "putdel" (deleted after
\* such a put, and delete_value returned Ok), "other" (anything else: never
\* touched, the last one failed, a delete with no put before it)
NoHist == [st |-> "other", v |-> ""]
Hist(st, v) == [st |-> st, v |-> v]

\* Value::get(key).is_some()
Has(d, key) == d.t = "obj" /\ key \in DOMAIN d.m

\* data files an invocation may find: none, an empty store, one edited by
\* hand to hold a number, one holding an array, one holding a bare string,
\* one that is not JSON
HandEdited == <<LBrace, Tok("str", AllKeys[1]), Colon, Tok("num", "7"), RBrace>>
InitFiles == {NoFile,
              FileOf(to_string_pretty(Obj(EmptyMap))),
              HandFile(HandEdited),
              HandFile(<<LBracket, RBracket>>),
              HandFile(<<Tok("str", AllVals[1])>>),
              HandFile(<<Tok("bad", "@")>>)}

X11Session == [wayland |-> FALSE, display |-> TRUE, macos |-> FALSE]

Quiet ==
    /\ pc = [p \in Procs |-> "idle"]
    /\ driver = [p \in Procs |-> "main"]
    /\ data = [p \in Procs |-> Null]
    /\ ev = NoEv
    /\ hist = [k \in Keys |-> NoHist]
    /\ runs = 0

Init ==
    /\ build \in {"handler", "lib"}
    /\ session = X11Session
    /\ file \in InitFiles
    /\ Quiet

\* the variant of an operation that build compiles
set_value(d, key, value, f, w) ==
    IF build = "handler" THEN set_value_handler(d, key, value, f, w)
    ELSE set_value_lib(d, key, value, f, w)

delete_value(d, key, f, w) ==
    IF build = "handler" THEN delete_value_handler(d, key, f, w)
    ELSE delete_value_lib(d, key, f, w)

yank_value(d, key, env) ==
    IF build = "handler" THEN yank_value_handler(d, key, env)
    ELSE yank_value_lib(d, key, env)

\* what a delete_value may meet when it writes: nothing if it does not write
DeleteWrites(d, key) ==
    IF build = "handler"
    THEN WriteOutcomes(to_string_pretty(IF d.t = "obj" THEN Obj(MapRemove(d.m, key)) ELSE d))
    ELSE IF Has(d, key)
         THEN WriteOutcomes(to_string_pretty(Obj(MapRemove(d.m, key))))
         ELSE {[kind |-> "ok", n |-> 0]}

\* the strategies whose outcome a yank can observe
Reachable ==
    IF build = "handler" THEN {"native"}
    ELSE (IF session.wayland THEN {"wl-copy"} ELSE {})
         \cup (IF session.display THEN {"xclip", "xsel"} ELSE {})
         \cup (IF session.macos THEN {"pbcopy"} ELSE {})

(***************************************************************************)
(* Steps                                                                   *)
(***************************************************************************)
\* The operation e of process p, whose Handler now holds d, has returned and
\* the Handler would go on to next.  Under main.rs, run() passes an error on
\* to main, which prints it and exits; the process is gone with its memory.
\* The api driver gives up its Handler when building, loading or saving
\* failed.
Return(p, drv, e, d, next) ==
    LET fatal == IF drv = "main" THEN ~e.res.ok
                 ELSE ~e.res.ok /\ e.op \in {"new", "load", "set", "delete"}
        to == IF fatal THEN "idle" ELSE next
    IN /\ ev' = [e EXCEPT !.p = p, !.drv = drv, !.mem = d,
                          !.stderr = IF drv = "main" /\ ~e.res.ok
                                     THEN e.stderr \o <<Display(e.res)>>
                                     ELSE e.stderr,
                          !.exit = IF drv = "main" /\ to = "idle"
                                   THEN main_exit(e.res) ELSE -1]
       /\ pc' = [pc EXCEPT ![p] = to]
       /\ data' = [data EXCEPT ![p] = IF to = "idle" THEN Null ELSE d]
       /\ driver' = [driver EXCEPT ![p] = IF to = "idle" THEN "main" ELSE drv]

\* under main.rs an operation ends the invocation
After(p) == IF driver[p] = "main" THEN "idle" ELSE "loaded"

\* list_keys, get_value and yank_value take &self: the Handler after one of
\* them is the Handler before it, and what may follow is what may follow
\* that state.  The read is the last use the caller makes of the Handler.
AfterRead(p) == "idle"

\* Cli::parse, then Handler::new, by one of the drivers drvs
Begin(p, drvs) ==
    /\ pc[p] = "idle"
    /\ \E drv \in drvs, o \in NewOutcomes :
         LET r == new(o)
         IN Return(p, drv, [NoEv EXCEPT !.op = "new", !.res = r.res],
                   r.data, "created")
    /\ UNCHANGED <<build, session, file, hist>>

\* a process starts: main.rs, or a caller of the api
New(p) == Begin(p, {"main", "api"}) /\ UNCHANGED runs

\* a process starts main.rs, as one of the invocations of a race
Run(p) ==
    /\ runs < MaxRuns
    /\ Begin(p, {"main"})
    /\ runs' = runs + 1

\* run(): handler.load_data()
Load(p) ==
    /\ pc[p] = "created"
    /\ \E r \in ReadOutcomes(file) :
         LET l == load_data(data[p], file, r)
         IN Return(p, driver[p], [NoEv EXCEPT !.op = "load", !.io = r, !.res = l.res],
                   l.data, "loaded")
    /\ UNCHANGED <<build, session, file, hist, runs>>

\* Commands::Ls
Ls(p) ==
    /\ pc[p] = "loaded"
    /\ LET l == list_keys(data[p])
       IN Return(p, driver[p],
                 [NoEv EXCEPT !.op = "ls", !.res = l.res, !.stdout = l.stdout],
                 data[p], AfterRead(p))
    /\ UNCHANGED <<build, session, file, hist, runs>>

\* a caller of Handler::get_value (main.rs reaches it through yank_value only)
Get(p) ==
    /\ pc[p] = "loaded"
    /\ driver[p] = "api"
    /\ \E key \in Keys :
         Return(p, driver[p],
                [NoEv EXCEPT !.op = "get", !.key = key,
                             !.res = get_value(data[p], key),
                             !.present = Has(data[p], key)],
                data[p], AfterRead(p))
    /\ UNCHANGED <<build, session, file, hist, runs>>

\* Commands::Put
Put(p) ==
    /\ pc[p] = "loaded"
    /\ \E key \in Keys, value \in Vals :
       \E w \in WriteOutcomes(to_string_pretty(Inserted(data[p], key, value))) :
         LET r == set_value(data[p], key, value, file, w)
         IN /\ file' = r.file
            /\ hist' = [hist EXCEPT ![key] =
                          IF r.res.ok
                          THEN Hist("put", value)
                          ELSE NoHist]
            /\ Return(p, driver[p],
                      [NoEv EXCEPT !.op = "set", !.key = key, !.val = value,
                                   !.io = w.kind,
                                   !.res = r.res, !.stdout = r.stdout,
                                   !.wrote = r.wrote,
                                   !.present = Has(data[p], key)],
                      r.data, After(p))
    /\ UNCHANGED <<build, session, runs>>

\* Commands::Delete
Delete(p) ==
    /\ pc[p] = "loaded"
    /\ \E key \in Keys :
       \E w \in DeleteWrites(data[p], key) :
         LET r == delete_value(data[p], key, file, w)
         IN /\ file' = r.file
            /\ hist' = [hist EXCEPT ![key] =
                          IF r.res.ok /\ hist[key].st = "put"
                          THEN Hist("putdel", "")
                          ELSE NoHist]
            /\ Return(p, driver[p],
                      [NoEv EXCEPT !.op = "delete", !.key = key,
                                   !.io = IF r.wrote THEN w.kind ELSE "",
                                   !.res = r.res, !.stdout = r.stdout,
                                   !.wrote = r.wrote,
                                   !.present = Has(data[p], key)],
                      r.data, After(p))
    /\ UNCHANGED <<build, session, runs>>

\* no subcommand, a key: yank_value
Yank(p) ==
    /\ pc[p] = "loaded"
    /\ \E key \in Keys, works \in SUBSET Reachable :
         LET r == yank_value(data[p], key, ClipEnv(session, works))
         IN Return(p, driver[p],
                   [NoEv EXCEPT !.op = "yank", !.key = key, !.res = r.res,
                                !.stdout = r.stdout, !.attempts = r.attempts,
                                !.present = Has(data[p], key)],
                   data[p], AfterRead(p))
    /\ UNCHANGED <<build, session, file, hist, runs>>

\* no subcommand, no key: run() prints to stderr and returns Ok(())
NoKey(p) ==
    /\ pc[p] = "loaded"
    /\ driver[p] = "main"
    /\ Return(p, driver[p],
              [NoEv EXCEPT !.op = "nokey", !.res = Ok,
                           !.stderr = <<Msg("No key provided", "")>>],
              data[p], "idle")
    /\ UNCHANGED <<build, session, file, hist, runs>>

\* the api caller drops its Handler
Drop(p) ==
    /\ pc[p] = "loaded"
    /\ driver[p] = "api"
    /\ pc' = [pc EXCEPT ![p] = "idle"]
    /\ data' = [data EXCEPT ![p] = Null]
    /\ driver' = [driver EXCEPT ![p] = "main"]
    /\ ev' = [NoEv EXCEPT !.p = p, !.drv = "api", !.op = "drop"]
    /\ UNCHANGED <<build, session, file, hist, runs>>

Step(p) ==
    \/ New(p)
    \/ Load(p)
    \/ Ls(p)
    \/ Get(p)
    \/ Put(p)
    \/ Delete(p)
    \/ Yank(p)
    \/ NoKey(p)
    \/ Drop(p)

\* the store as the design assumes it is used: one invocation at a time,
\* each of them the next life of the same process
Next == Step(Main)
Spec == Init /\ [][Next]_vars

\* invocations of main.rs racing on the data file: the commands that write
\* it, put and delete, and ls for those that only read it
NextConc ==
    \E p \in Procs :
        \/ Run(p)
        \/ Load(p)
        \/ Ls(p)
        \/ Put(p)
        \/ Delete(p)

SpecConc == Init /\ [][NextConc]_vars

\* main.rs run one invocation at a time, in every session the clipboard
\* code distinguishes
InitClip ==
    /\ build \in {"handler", "lib"}
    /\ session \in Sessions
    /\ file \in InitFiles
    /\ Quiet

NextClip ==
    \/ Run(Main)
    \/ Load(Main)
    \/ Ls(Main)
    \/ Put(Main)
    \/ Delete(Main)
    \/ Yank(Main)
    \/ NoKey(Main)
SpecClip == InitClip /\ [][NextClip]_vars

(***************************************************************************)
(* Properties                                                              *)
(***************************************************************************)
Range(q) == {q[i] : i \in 1..Len(q)}

\* C1: last put wins.  When get_value(k) runs and the last set_value or
\* delete_value on k was a set_value(k, v) that returned Ok, in this Handler
\* or in an earlier one, get_value returns Ok(v).
LastPutWins ==
    (ev.op = "get" /\ hist[ev.key].st = "put")
        => ev.res = OkVal(hist[ev.key].v)

\* a get that returns the second value, the last one put
LastPutWinsWitness ==
    /\ ev.op = "get"
    /\ hist[ev.key] = Hist("put", AllVals[2])
    /\ ev.res = OkVal(AllVals[2])

\* C2: after a set_value, or a delete_value of a key that was there, returned
\* Ok, the data file exists, its content is the serialization of
\* Handler.data, and parsing it gives back exactly Handler.data.
FileReflectsMemory ==
    (/\ ev.op \in {"set", "delete"}
     /\ ev.res.ok
     /\ (ev.op = "delete" => ev.present))
        => /\ file.exists
           /\ file.content = to_string_pretty(ev.mem)
           /\ from_str(file.content) = ParseOk(ev.mem)

\* a set_value that wrote a store of two keys
FileReflectsMemoryWitness ==
    /\ ev.op = "set"
    /\ ev.res.ok
    /\ ev.mem.t = "obj"
    /\ Cardinality(DOMAIN ev.mem.m) = 2
    /\ file = FileOf(to_string_pretty(ev.mem))

\* C3: a delete_value of a key that is not in the store returns Ok, does not
\* report a deletion, does not call fs::write, and leaves the file as it was.
DeleteAbsentNoWrite ==
    [][(ev'.op = "delete" /\ ~ev'.present)
         => /\ ev'.res.ok
            /\ DeletedMsg \notin Range(ev'.stdout)
            /\ ~ev'.wrote
            /\ file' = file]_vars

\* C4: when get_value(k) runs and the last operations on k were a set_value
\* that returned Ok and then a delete_value that returned Ok, get_value
\* fails with KeyNotFound(k).
DeleteThenGet ==
    (ev.op = "get" /\ hist[ev.key].st = "putdel")
        => ev.res = Err("KeyNotFound", ev.key)

\* a get of a key that was put and then deleted
DeleteThenGetWitness ==
    /\ ev.op = "get"
    /\ hist[ev.key].st = "putdel"
    /\ ~ev.res.ok

\* C5: load_data of a missing file returns Ok and leaves an empty object in
\* Handler.data; load_data of a file that is read but does not parse returns
\* the Json error, after which the Handler runs nothing more, and main
\* prints the error and exits with status 1.
LoadMissingOrMalformed ==
    ev.op = "load"
        => /\ ~file.exists
                => /\ ev.res = Ok
                   /\ ev.mem = Obj(EmptyMap)
                   /\ pc[ev.p] = "loaded"
           /\ (file.exists /\ ev.io = "ok" /\ ~from_str(file.content).ok)
                => /\ ~ev.res.ok
                   /\ ev.res.err = "Json"
                   /\ pc[ev.p] = "idle"
                   /\ ev.drv = "main"
                        => /\ ev.exit = 1
                           /\ ev.stderr = <<Display(ev.res)>>

\* main.rs met a file that is not JSON
LoadMissingOrMalformedWitness ==
    /\ ev.op = "load"
    /\ ev.drv = "main"
    /\ file.exists
    /\ ev.res.err = "Json"
    /\ ev.exit = 1

\* C6: an invocation with no key and no subcommand prints "No key provided"
\* and exits with a status that is not zero.
NoKeyExitsNonZero ==
    ev.op = "nokey"
        => /\ Msg("No key provided", "") \in Range(ev.stderr)
           /\ ev.exit # 0

\* C7: lost update.  When a set_value returns Ok in an invocation that had
\* not loaded key k, the file it wrote holds exactly its own memory and so
\* does not hold k, even though the last set_value(k, v) of another
\* invocation returned Ok and no delete_value(k) followed it.
LostUpdate ==
    \A k \in Keys :
        (/\ ev.op = "set"
         /\ ev.res.ok
         /\ k # ev.key
         /\ hist[k].st = "put"
         /\ ~Has(ev.mem, k))
            => /\ file = FileOf(to_string_pretty(ev.mem))
               /\ ~Has(from_str(file.content).v, k)

\* two invocations both exited with status 0 after a put, and the key of the
\* first is not in the file
LostUpdateWitness ==
    \E k \in Keys :
        /\ ev.op = "set"
        /\ ev.res.ok
        /\ ev.exit = 0
        /\ k # ev.key
        /\ hist[k].st = "put"
        /\ hist[ev.key].st = "put"
        /\ from_str(file.content).ok
        /\ ~Has(from_str(file.content).v, k)

\* the one order in which strategies are tried
StrategyOrder == <<"wl-copy", "xclip", "xsel", "pbcopy", "native">>
StrategyRank(name) == CHOOSE i \in 1..Len(StrategyOrder) : StrategyOrder[i] = name

\* C8: the strategies a copy tries follow the fixed order and none is tried
\* twice; only the last one tried can have succeeded; the copy returns Ok
\* exactly when a strategy it tried succeeded, and otherwise fails with the
\* Clipboard error, which in lib.rs carries the message to install a helper.
FallbackChain ==
    (ev.op = "yank" /\ ev.present)
        => LET a == ev.attempts
           IN /\ \A i, j \in 1..Len(a) :
                    i < j => StrategyRank(a[i].name) < StrategyRank(a[j].name)
              /\ \A i \in 1..Len(a) : a[i].ok => i = Len(a)
              /\ ev.res.ok <=> (\E i \in 1..Len(a) : a[i].ok)
              /\ ~ev.res.ok => ev.res.err = "Clipboard"
              /\ (~ev.res.ok /\ build = "lib")
                    => ev.res = Err("Clipboard", UnavailableMsg)

\* wl-copy and xclip failed, xsel succeeded
FallbackChainWitness ==
    /\ ev.op = "yank"
    /\ ev.present
    /\ ev.res.ok
    /\ Len(ev.attempts) = 3
    /\ ev.attempts[1] = [name |-> "wl-copy", ok |-> FALSE]
    /\ ev.attempts[3] = [name |-> "xsel", ok |-> TRUE]

\* C9: a copy fails only after it tried the in-process native clipboard.
NativeFallback ==
    (ev.op = "yank" /\ ev.present /\ ~ev.res.ok)
        => \E i \in 1..Len(ev.attempts) : ev.attempts[i].name = "native"

\* C10: under main.rs, an operation that returns an error ends the process
\* with status 1 after printing the error, an operation that returns Ok
\* ends it with status 0 (Handler::new and load_data let it go on), and a
\* yank of a missing key exits with status 1 and a message naming the key.
ExitStatus ==
    /\ (ev.drv = "main" /\ ~ev.res.ok)
          => /\ ev.exit = 1
             /\ ev.stderr = <<Display(ev.res)>>
             /\ pc[ev.p] = "idle"
    /\ (ev.drv = "main" /\ ev.res.ok)
          => /\ ev.exit = (IF ev.op \in {"new", "load"} THEN -1 ELSE 0)
             /\ ev.stderr = (IF ev.op = "nokey"
                             THEN <<Msg("No key provided", "")>> ELSE <<>>)
    /\ (ev.drv = "main" /\ ev.op = "yank" /\ ~ev.present)
          => /\ ev.exit = 1
             /\ ev.stderr = <<Msg("No value found for '{0}'", ev.key)>>

\* main.rs yanked a key from an empty store
ExitStatusWitness ==
    /\ ev.drv = "main"
    /\ ev.op = "yank"
    /\ ev.mem = Obj(EmptyMap)
    /\ ev.res = Err("KeyNotFound", ev.key)
    /\ ev.exit = 1

\* C11: put is idempotent on the file.  When the last set_value or
\* delete_value on k was a set_value(k, v) that returned Ok, a further
\* set_value(k, v) leaves the data file exactly as it was.
PutIdempotent ==
    [][(ev'.op = "set" /\ hist[ev'.key] = Hist("put", ev'.val))
         => file' = file]_vars

\* C12: list_keys succeeds; on a store that holds keys it prints one line
\* per key, every key exactly once, in ascending byte order; on an empty
\* store (a missing data file included) it prints the single line
\* "No keys stored.".
ListKeysSorted ==
    (ev.op = "ls" /\ ev.mem.t = "obj") =>
        /\ ev.res = Ok
        /\ IF DOMAIN ev.mem.m = {}
           THEN ev.stdout = <<Msg("No keys stored.", "")>>
           ELSE /\ Len(ev.stdout) = Cardinality(DOMAIN ev.mem.m)
                /\ \A k \in DOMAIN ev.mem.m :
                     \E i \in 1..Len(ev.stdout) : ev.stdout[i] = Msg("{key}", k)
                /\ \A i, j \in 1..Len(ev.stdout) :
                     i < j => Rank(ev.stdout[i][2]) < Rank(ev.stdout[j][2])

ListKeysSortedWitness ==
    /\ ev.op = "ls"
    /\ DOMAIN ev.mem.m = {AllKeys[1], AllKeys[2]}
    /\ ev.stdout = <<Msg("{key}", AllKeys[1]), Msg("{key}", AllKeys[2])>>

\* C13: persist before success.  A set_value or delete_value whose
\* save_data failed returns the I/O error and has printed no success
\* message.
PersistBeforeSuccess ==
    (ev.op \in {"set", "delete"} /\ ~ev.res.ok) =>
        /\ ev.res.err = "Io"
        /\ ev.stdout = <<>>

\* C14: print after copy.  A yank_value of a stored key whose clipboard
\* write failed has printed neither the value nor the confirmation.
PrintAfterCopy ==
    (ev.op = "yank" /\ ev.present /\ ~ev.res.ok) => ev.stdout = <<>>

\* C15: strategy selection by environment.  A copy tries an X11 helper
\* (xclip, xsel) only when the Wayland signal is absent and the X11 display
\* signal is present; with the Wayland signal present it never tries one.
X11OnlyWithoutWayland ==
    ev.op = "yank" =>
        \A i \in 1..Len(ev.attempts) :
            ev.attempts[i].name \in {"xclip", "xsel"}
                => (~session.wayland /\ session.display)

\* C16: no torn file.  Every step that changes the data file, a save_data
\* whose write failed part-way included, leaves a file that parses to a
\* complete JSON object.
NoTornFile ==
    [][file' # file
         => /\ file'.exists
            /\ from_str(file'.content).ok
            /\ from_str(file'.content).v.t = "obj"]_vars

\* C17: a data file that is valid JSON but not an object is an empty store.
\* load_data of it succeeds; on the data it loaded, list_keys prints
\* "No keys stored.", get_value fails with KeyNotFound, delete_value returns
\* Ok and leaves the file as it was, and a set_value(k, v) that succeeds
\* leaves the object {k: v} both in memory and in the file.
NonObjectAsEmpty ==
    [][/\ (ev'.op = "load" /\ ev'.io = "ok" /\ from_str(file.content).ok
               /\ from_str(file.content).v.t # "obj")
            => (ev'.res = Ok /\ ev'.mem = from_str(file.content).v)
       /\ \A p \in Procs :
            (ev'.p = p /\ pc[p] = "loaded" /\ data[p].t # "obj") =>
                /\ ev'.op = "ls"
                      => (ev'.res = Ok
                            /\ ev'.stdout = <<Msg("No keys stored.", "")>>)
                /\ ev'.op = "get" => ev'.res = Err("KeyNotFound", ev'.key)
                /\ ev'.op = "delete" => (ev'.res = Ok /\ file' = file)
                /\ (ev'.op = "set" /\ ev'.res.ok)
                      => /\ ev'.mem = Obj(MapInsert(EmptyMap, ev'.key, Str(ev'.val)))
                         /\ file'.exists
                         /\ from_str(file'.content) = ParseOk(ev'.mem)]_vars

\* the entry of key k in a value: whether it is there, and what it is
Entry(v, k) ==
    IF v.t = "obj" /\ k \in DOMAIN v.m THEN <<TRUE, v.m[k]>> ELSE <<FALSE, Null>>

\* the value a load_data would find in a file
FileValue(f) ==
    IF f.exists /\ from_str(f.content).ok THEN from_str(f.content).v ELSE Null

\* C18: mutations touch only their own key.  A set_value(k, v) or a
\* delete_value(k) leaves every other key k2 as it was, present or absent
\* and with the same value, in memory and in the file it leaves behind.
OnlyOwnKey ==
    [][\A p \in Procs :
         (ev'.p = p /\ pc[p] = "loaded" /\ ev'.op \in {"set", "delete"}) =>
             \A k2 \in Keys \ {ev'.key} :
                 /\ Entry(ev'.mem, k2) = Entry(data[p], k2)
                 /\ Entry(FileValue(file'), k2) = Entry(data[p], k2)]_vars

\* C19: yanking a missing key has no side effects.  A yank_value(k) of a key
\* that is not stored fails with KeyNotFound(k), has tried no clipboard
\* strategy and printed nothing, and leaves the in-memory store and the
\* data file as they were.
YankMissingNoEffect ==
    [][\A p \in Procs :
         (ev'.p = p /\ pc[p] = "loaded" /\ ev'.op = "yank"
             /\ ~Has(data[p], ev'.key))
           => /\ ev'.res = Err("KeyNotFound", ev'.key)
              /\ ev'.attempts = <<>>
              /\ ev'.stdout = <<>>
              /\ ~ev'.wrote
              /\ ev'.mem = data[p]
              /\ file' = file
              /\ hist' = hist]_vars

\* a caller yanked a key the store does not hold while it holds another
YankMissingNoEffectWitness ==
    /\ ev.op = "yank"
    /\ ev.drv = "api"
    /\ ~ev.present
    /\ ev.mem.t = "obj"
    /\ DOMAIN ev.mem.m # {}
    /\ ev.res = Err("KeyNotFound", ev.key)

====
